---- MODULE Spec2Model ----
(***************************************************************************)
(* Model of curseradio_improved: the OPML node tree (OPMLOutline,          *)
(* OPMLOutlineLink, OPMLAudio, OPMLFavourites), OPMLOutline.flatten,       *)
(* OPMLBrowser.move and the key handlers of OPMLBrowser.interact.          *)
(***************************************************************************)
EXTENDS Integers, Sequences, FiniteSets, TLC

\* ------------------------------------------------------------------ bounds

\* Largest number of entries the favourites list is let grow to.
MaxFav == 2
\* Stack depth at which the recursion of flatten is cut off (Python raises
\* RecursionError at the interpreter's limit; trees here are far shallower).
MaxDepth == 6
\* MoveSpec: longest flat list, largest top and largest cursor move is
\* called with.
MaxLen == 4
\* TripSpec: largest number of outlines nested in one outline of a document.
MaxKids == 2
MaxTop == 4
MaxCursor == 2

\* ------------------------------------------------------- the node universe

\* R: the fake root built by from_xml; F: the OPMLFavourites folder;
\* L: a type=link outline of the root document; T: the audio outline the
\* URL of L answers with; G: an audio outline of a stored favourites file.
Nodes == {"R", "F", "L", "T", "G"}
None == "none"

Kind(n) ==
  CASE n = "R" -> "outline"
    [] n = "F" -> "favourites"
    [] n = "L" -> "link"
    [] OTHER   -> "audio"

Branches == {n \in Nodes : Kind(n) # "audio"}
Links == {n \in Nodes : Kind(n) = "link"}

\* What lxml.etree.parse(url) + from_element give for a link's URL.
FetchResults(n) == IF n = "L" THEN {<<>>, <<"T">>} ELSE {<<>>}

status_ymargin == 3

\* Window heights getmaxyx answers with: 6 and 7 show one and two rows of
\* the list; at 5 the list area is empty (maxy - 3 - status_ymargin = -1).
Heights == {5, 6, 7}

\* ------------------------------------------------------------------- state

VARIABLES
  children,   \* OPMLOutline.children of every branch node
  collapsed,  \* OPMLOutline.collapsed
  ready,      \* OPMLOutlineLink.ready
  dirty,      \* OPMLFavourites.dirty
  selected, cursor, top, flat, maxy,   \* OPMLBrowser fields
  child,      \* OPMLBrowser.child: "none", or the state of the Popen handle
  status,     \* OPMLBrowser.status: None ("") or the node being played
  pc,         \* "loop" in interact, "done" after exit, "crashed" on a raise
  err,        \* the exception that left interact, None if none did
  log,        \* ordered steps of the last key handler
  fetches,    \* number of from_xml calls made for each link
  orphans,    \* player processes still running that self.child no longer holds
  written,    \* favourites.opml was written by this session
  toggled,    \* OPMLFavourites.toggle was invoked in this session
  tog,        \* run of consecutive toggles of one node
  doc,        \* the outlines favourites.opml was written with, NoDoc if not
  moved,      \* MoveSpec: arguments and fields of the last call of move
  trip        \* TripSpec: the document and what became of it so far

vars == <<children, collapsed, ready, dirty, selected, cursor, top, flat, maxy,
          child, status, pc, err, log, fetches, orphans, written, toggled, tog,
          doc, moved, trip>>

\* ----------------------------------------------------------------- helpers

Min(a, b) == IF a < b THEN a ELSE b
Max(a, b) == IF a > b THEN a ELSE b
Range(s) == {s[i] : i \in 1..Len(s)}

\* list.remove(x): drops the first occurrence of x.
RECURSIVE Remove(_, _)
Remove(s, x) ==
  IF s = <<>> THEN <<>>
  ELSE IF Head(s) = x THEN Tail(s)
  ELSE <<Head(s)>> \o Remove(Tail(s), x)

\* OPMLOutline.flatten / OPMLNode.flatten: pre-order, descending only into
\* branch nodes that are not collapsed.  ok = FALSE when the recursion does
\* not end (RecursionError).
RECURSIVE FlattenNode(_, _, _, _)
RECURSIVE FlattenSeq(_, _, _, _)
\* Mutant of FlattenNode: descends into collapsed branches too.
FlattenNode_IgnoresCollapsed(n, depth, ch, col) ==
  IF depth > MaxDepth THEN [ok |-> FALSE, list |-> <<>>]
  ELSE IF n \in Branches
    THEN LET sub == FlattenSeq(ch[n], depth + 1, ch, col)
         IN  [ok |-> sub.ok, list |-> << <<n, depth>> >> \o sub.list]
    ELSE [ok |-> TRUE, list |-> << <<n, depth>> >>]

FlattenNode(n, depth, ch, col) ==
  IF depth > MaxDepth THEN [ok |-> FALSE, list |-> <<>>]
  ELSE IF n \in Branches /\ ~col[n]
    THEN LET sub == FlattenSeq(ch[n], depth + 1, ch, col)
         IN  [ok |-> sub.ok, list |-> << <<n, depth>> >> \o sub.list]
    ELSE [ok |-> TRUE, list |-> << <<n, depth>> >>]
FlattenSeq(s, depth, ch, col) ==
  IF s = <<>> THEN [ok |-> TRUE, list |-> <<>>]
  ELSE LET h == FlattenNode(Head(s), depth, ch, col)
       IN  IF ~h.ok THEN h
           ELSE LET t == FlattenSeq(Tail(s), depth, ch, col)
                IN  [ok |-> t.ok, list |-> h.list \o t.list]

Flatten(ch, col) == FlattenNode("R", 0, ch, col)

\* Mutant of MoveTarget: a target above the window does not scroll up.
MoveTarget_NoScrollUp(t0, fl, tp, my) ==
  LET target == Max(Min(t0, Len(fl) - 1), 0)
      vis == my - 3 - status_ymargin
  IN  IF target > tp + vis
        THEN [selected |-> fl[target + 1][1], top |-> target - vis, cursor |-> vis]
      ELSE [selected |-> fl[target + 1][1], top |-> tp, cursor |-> target - tp]

\* Mutant of MoveTarget: scrolling down leaves top one row short.
MoveTarget_ScrollsOneShort(t0, fl, tp, my) ==
  LET target == Max(Min(t0, Len(fl) - 1), 0)
      vis == my - 3 - status_ymargin
  IN  IF target < tp
        THEN [selected |-> fl[target + 1][1], top |-> target, cursor |-> 0]
      ELSE IF target > tp + vis
        THEN [selected |-> fl[target + 1][1], top |-> target - vis - 1,
              cursor |-> vis]
      ELSE [selected |-> fl[target + 1][1], top |-> tp, cursor |-> target - tp]

\* OPMLBrowser.move after the target is determined: clamp, select, scroll.
MoveTarget(t0, fl, tp, my) ==
  LET target == Max(Min(t0, Len(fl) - 1), 0)
      vis == my - 3 - status_ymargin
  IN  IF target < tp
        THEN [selected |-> fl[target + 1][1], top |-> target, cursor |-> 0]
      ELSE IF target > tp + vis
        THEN [selected |-> fl[target + 1][1], top |-> target - vis, cursor |-> vis]
      ELSE [selected |-> fl[target + 1][1], top |-> tp, cursor |-> target - tp]

\* The end of every loop iteration: child.poll() clears a handle whose
\* process has exited, together with the status text.
Polled(c, s) ==
  IF c = "exited" THEN [child |-> "none", status |-> None]
  ELSE [child |-> c, status |-> s]

\* child.terminate(); child.wait() when a handle is held.
Terminated(c) == IF c = "none" THEN "none" ELSE "exited"

NoTog == [node |-> None, count |-> 0, before |-> {}]

\* --------------------------------------------------------------- documents

\* An <outline> element: its type and text attributes (None when absent),
\* whether it carries a URL attribute, and its child elements in order.
\* A document is the sequence of the outlines under /opml/body.
NoAttr == [type |-> None, text |-> None, url |-> FALSE]
NoDoc == <<"nodoc">>
NoMove == [rel |-> None, to |-> None, top |-> 0, cursor |-> 0, maxy |-> 0]
NoTrip == [stage |-> None]

Parsed(node) == [ok |-> TRUE, raised |-> None, node |-> node]
Failed(e) == [ok |-> FALSE, raised |-> e, node |-> None]

\* OPMLNode.from_element, and the loop over the outlines of one parent.
RECURSIVE FromElement(_)
RECURSIVE FromOutlines(_)
FromElement(element) ==
  LET text == element.text
      attr == [type |-> element.type, text |-> element.text,
               url |-> element.url]
      type == IF element.type = None /\ Len(element.kids) > 0
                THEN "outline" ELSE element.type
  IN  IF type = "outline"
        THEN LET sub == FromOutlines(element.kids)
             IN  IF sub.ok
                   THEN Parsed([kind |-> "outline", text |-> text,
                                attr |-> attr, children |-> sub.node])
                   ELSE sub
      ELSE IF type \in {"link", "audio"}
        THEN IF ~attr.url THEN Failed("KeyError")
             ELSE IF Len(element.kids) # 0 THEN Failed("AssertionError")
             ELSE Parsed([kind |-> type, text |-> text, attr |-> attr,
                          children |-> <<>>])
      ELSE Failed("UnboundLocalError")
FromOutlines(outlines) ==
  IF outlines = <<>> THEN Parsed(<<>>)
  ELSE LET h == FromElement(Head(outlines))
       IN  IF ~h.ok THEN h
           ELSE LET t == FromOutlines(Tail(outlines))
                IN  IF ~t.ok THEN t ELSE Parsed(<<h.node>> \o t.node)

\* cls.from_xml of a readable document: a fake parent of class cls holding
\* the parsed outlines.  OPMLFavourites.__init__ fixes its own text.
FromXml(cls, document) ==
  LET sub == FromOutlines(document)
  IN  IF sub.ok
        THEN Parsed([kind |-> cls,
                     text |-> IF cls = "favourites" THEN "Favourites" ELSE "",
                     attr |-> NoAttr, children |-> sub.node])
        ELSE sub

\* to_element: OPMLNode's for an audio node, OPMLOutline's (which the link
\* and the favourites classes inherit) for a branch.
RECURSIVE ToElement(_)
RECURSIVE ToElements(_)
\* Mutant of ToElement: OPMLNode.to_element serves every class, so no
\* child element is appended.
ToElement_NoChildren(node) ==
  [type |-> node.attr.type, text |-> node.attr.text, url |-> node.attr.url,
   kids |-> <<>>]

ToElement(node) ==
  [type |-> node.attr.type, text |-> node.attr.text, url |-> node.attr.url,
   kids |-> IF node.kind = "audio" THEN <<>> ELSE ToElements(node.children)]
ToElements(nodes) ==
  IF nodes = <<>> THEN <<>>
  ELSE <<ToElement(Head(nodes))>> \o ToElements(Tail(nodes))

\* OPMLNode.to_xml: the node's own element is the one outline of the body.
ToXml(node) == <<ToElement(node)>>

\* OPMLFavourites.to_xml: the children's elements are the body's outlines.
FavouritesToXml(node) == ToElements(node.children)

\* flatten of a parsed tree with every branch expanded, as (text, depth).
RECURSIVE Expanded(_, _)
RECURSIVE ExpandedSeq(_, _)
Expanded(node, depth) ==
  << <<node.text, depth>> >> \o
    (IF node.kind = "audio" THEN <<>>
     ELSE ExpandedSeq(node.children, depth + 1))
ExpandedSeq(nodes, depth) ==
  IF nodes = <<>> THEN <<>>
  ELSE Expanded(Head(nodes), depth) \o ExpandedSeq(Tail(nodes), depth)

\* The text and the attributes the nodes of the browser were built with.
NodeText(n) ==
  CASE n = "R" -> ""
    [] n = "F" -> "Favourites"
    [] OTHER   -> n
NodeAttr(n) ==
  IF Kind(n) \in {"outline", "favourites"} THEN NoAttr
  ELSE [type |-> Kind(n), text |-> n, url |-> TRUE]

\* The object graph below n as a tree of nodes (cut off below MaxDepth).
RECURSIVE NodeTree(_, _, _)
RECURSIVE NodeTrees(_, _, _)
NodeTree(n, depth, ch) ==
  [kind |-> Kind(n), text |-> NodeText(n), attr |-> NodeAttr(n),
   children |-> IF n \in Branches /\ depth <= MaxDepth
                  THEN NodeTrees(ch[n], depth + 1, ch) ELSE <<>>]
NodeTrees(s, depth, ch) ==
  IF s = <<>> THEN <<>>
  ELSE <<NodeTree(Head(s), depth, ch)>> \o NodeTrees(Tail(s), depth, ch)

\* -------------------------------------------------------------------- Init

\* OPMLBrowser.__init__: the root document holds one link; the favourites
\* file is absent (empty list) or holds one audio outline.
Init ==
  /\ \E fav \in {<<>>, <<"G">>} :
       children = [n \in Branches |->
                     CASE n = "R" -> <<"F", "L">>
                       [] n = "F" -> fav
                       [] OTHER   -> <<>>]
  /\ collapsed = [n \in Branches |-> n # "R"]
  /\ ready = [n \in Links |-> FALSE]
  /\ dirty = FALSE
  /\ selected = "R"
  /\ cursor = 0
  /\ top = 0
  /\ flat = Flatten(children, collapsed).list
  /\ maxy \in Heights
  /\ child = "none"
  /\ status = None
  /\ pc = "loop"
  /\ err = None
  /\ log = <<>>
  /\ fetches = [n \in Links |-> 0]
  /\ orphans = 0
  /\ written = FALSE
  /\ toggled = FALSE
  /\ tog = NoTog
  /\ doc = NoDoc
  /\ moved = NoMove
  /\ trip = NoTrip

\* ----------------------------------------------------------------- actions

nodeVars == <<children, collapsed, ready, dirty, fetches, toggled>>
\* Variables only the specifications of the pure functions change.
pureVars == <<moved, trip>>

\* A handler that only moves the selection, then polls the player.
MoveBy(t0) ==
  LET m == MoveTarget(t0, flat, top, maxy)
      p == Polled(child, status)
  IN  /\ pc = "loop"
      /\ selected' = m.selected
      /\ top' = m.top
      /\ cursor' = m.cursor
      /\ child' = p.child
      /\ status' = p.status
      /\ log' = <<>>
      /\ tog' = NoTog
      /\ UNCHANGED <<pureVars, nodeVars, flat, maxy, pc, err, orphans, written, doc>>

KeyUp == MoveBy(top + cursor - 1)
KeyDown == MoveBy(top + cursor + 1)
KeyStart == MoveBy(0)
KeyEnd == MoveBy(Len(flat) - 1)
KeyPageUp == MoveBy(top + cursor - maxy)
KeyPageDown == MoveBy(top + cursor + maxy)

\* curses.KEY_RESIZE: only maxy is read again.
KeyResize ==
  LET p == Polled(child, status)
  IN  /\ pc = "loop"
      /\ maxy' \in Heights
      /\ child' = p.child
      /\ status' = p.status
      /\ log' = <<>>
      /\ tog' = NoTog
      /\ UNCHANGED <<pureVars, nodeVars, selected, cursor, top, flat, pc, err, orphans,
                     written, doc>>

\* A raise that leaves interact: curses.wrapper re-raises it and the program
\* ends; nothing after the raising statement runs.
Raise(e) ==
  /\ pc' = "crashed"
  /\ err' = e

\* Mutant of Refresh: move(rel=0) runs on the list flattened earlier.
Refresh_StaleFlat(ch, col, c, s) ==
  LET m == MoveTarget(top + cursor, flat, top, maxy)
      p == Polled(c, s)
  IN  /\ flat' = flat
      /\ selected' = m.selected
      /\ top' = m.top
      /\ cursor' = m.cursor
      /\ child' = p.child
      /\ status' = p.status
      /\ UNCHANGED <<pc, err>>

\* Lines 489-490 and 506-509: re-flatten, move(rel=0), poll the player.
\* c, s: child and status as the handler left them.
Refresh(ch, col, c, s) ==
  LET f == Flatten(ch, col)
  IN  IF ~f.ok
        THEN /\ Raise("RecursionError")
             /\ child' = c
             /\ status' = s
             /\ UNCHANGED <<flat, selected, top, cursor>>
        ELSE LET m == MoveTarget(top + cursor, f.list, top, maxy)
                 p == Polled(c, s)
             IN  /\ flat' = f.list
                 /\ selected' = m.selected
                 /\ top' = m.top
                 /\ cursor' = m.cursor
                 /\ child' = p.child
                 /\ status' = p.status
                 /\ UNCHANGED <<pc, err>>

\* Entries of log: a step t of the handler; n: the node it is about;
\* v: the strings it carries.
Step(t) == [t |-> t, n |-> None, v |-> <<>>]
Act(n) == [t |-> "activate", n |-> n, v |-> <<>>]

\* Mutant of OutlineActivate: expanding or collapsing one branch collapses
\* every other branch.
OutlineActivate_CollapsesOthers(n) ==
  [collapsed |-> [m \in Branches |-> IF m = n THEN ~collapsed[n] ELSE TRUE],
   log |-> <<Step("flip")>>]

\* OPMLOutline.activate (also OPMLFavourites): flip collapsed, yield nothing.
OutlineActivate(n) ==
  [collapsed |-> [collapsed EXCEPT ![n] = ~@], log |-> <<Step("flip")>>]

KeyEnterOutline ==
  /\ pc = "loop"
  /\ Kind(selected) \in {"outline", "favourites"}
  /\ LET a == OutlineActivate(selected)
     IN  /\ collapsed' = a.collapsed
         /\ log' = <<Act(selected)>> \o a.log
         /\ Refresh(children, a.collapsed, child, status)
  /\ tog' = NoTog
  /\ UNCHANGED <<pureVars, children, ready, dirty, fetches, toggled, maxy, orphans,
                 written, doc>>

\* OPMLOutlineLink.activate.  outcome: "ok", or the error from_xml raises;
\* res: the outlines the URL answers with.
\* Mutant of LinkActivate: a successful load does not set ready.
LinkActivate_ReadyNotSet(n, outcome, res) ==
  IF outcome = "ok"
    THEN [children |-> [children EXCEPT ![n] = res],
          ready |-> ready,
          collapsed |-> [collapsed EXCEPT ![n] = ~@],
          fetches |-> [fetches EXCEPT ![n] = @ + 1],
          log |-> <<Step("loading"), Step("fetch"), Step("set_children"),
                    Step("set_ready"), Step("done"), Step("flip")>>,
          raised |-> None]
    ELSE [children |-> children,
          ready |-> ready,
          collapsed |-> collapsed,
          fetches |-> [fetches EXCEPT ![n] = @ + 1],
          log |-> <<Step("loading"), Step("fetch"), Step("raise")>>,
          raised |-> outcome]

\* Mutant of LinkActivate: "Loading... done" is yielded right after the
\* fetch, before children and ready are assigned.
LinkActivate_DoneFirst(n, outcome, res) ==
  IF ~ready[n]
    THEN IF outcome = "ok"
           THEN [children |-> [children EXCEPT ![n] = res],
                 ready |-> [ready EXCEPT ![n] = TRUE],
                 collapsed |-> [collapsed EXCEPT ![n] = ~@],
                 fetches |-> [fetches EXCEPT ![n] = @ + 1],
                 log |-> <<Step("loading"), Step("fetch"), Step("done"),
                           Step("set_children"), Step("set_ready"),
                           Step("flip")>>,
                 raised |-> None]
           ELSE [children |-> children,
                 ready |-> ready,
                 collapsed |-> collapsed,
                 fetches |-> [fetches EXCEPT ![n] = @ + 1],
                 log |-> <<Step("loading"), Step("fetch"), Step("raise")>>,
                 raised |-> outcome]
    ELSE [children |-> children,
          ready |-> ready,
          collapsed |-> [collapsed EXCEPT ![n] = ~@],
          fetches |-> fetches,
          log |-> <<Step("flip")>>,
          raised |-> None]

\* Mutant of LinkActivate: ready is set before the fetch, so a failed fetch
\* leaves it set.
LinkActivate_ReadySetEarly(n, outcome, res) ==
  IF ~ready[n]
    THEN IF outcome = "ok"
           THEN [children |-> [children EXCEPT ![n] = res],
                 ready |-> [ready EXCEPT ![n] = TRUE],
                 collapsed |-> [collapsed EXCEPT ![n] = ~@],
                 fetches |-> [fetches EXCEPT ![n] = @ + 1],
                 log |-> <<Step("loading"), Step("set_ready"), Step("fetch"),
                           Step("set_children"), Step("done"), Step("flip")>>,
                 raised |-> None]
           ELSE [children |-> children,
                 ready |-> [ready EXCEPT ![n] = TRUE],
                 collapsed |-> collapsed,
                 fetches |-> [fetches EXCEPT ![n] = @ + 1],
                 log |-> <<Step("loading"), Step("set_ready"), Step("fetch"),
                           Step("raise")>>,
                 raised |-> outcome]
    ELSE [children |-> children,
          ready |-> ready,
          collapsed |-> [collapsed EXCEPT ![n] = ~@],
          fetches |-> fetches,
          log |-> <<Step("flip")>>,
          raised |-> None]

LinkActivate(n, outcome, res) ==
  IF ~ready[n]
    THEN IF outcome = "ok"
           THEN [children |-> [children EXCEPT ![n] = res],
                 ready |-> [ready EXCEPT ![n] = TRUE],
                 collapsed |-> [collapsed EXCEPT ![n] = ~@],
                 fetches |-> [fetches EXCEPT ![n] = @ + 1],
                 log |-> <<Step("loading"), Step("fetch"), Step("set_children"),
                           Step("set_ready"), Step("done"), Step("flip")>>,
                 raised |-> None]
           ELSE [children |-> children,
                 ready |-> ready,
                 collapsed |-> collapsed,
                 fetches |-> [fetches EXCEPT ![n] = @ + 1],
                 log |-> <<Step("loading"), Step("fetch"), Step("raise")>>,
                 raised |-> outcome]
    ELSE [children |-> children,
          ready |-> ready,
          collapsed |-> [collapsed EXCEPT ![n] = ~@],
          fetches |-> fetches,
          log |-> <<Step("flip")>>,
          raised |-> None]

KeyEnterLink ==
  /\ pc = "loop"
  /\ Kind(selected) = "link"
  /\ \E outcome \in {"ok", "FetchError", "ParseError"},
        res \in FetchResults(selected) :
       LET a == LinkActivate(selected, outcome, res)
       IN  /\ children' = a.children
           /\ ready' = a.ready
           /\ collapsed' = a.collapsed
           /\ fetches' = a.fetches
           /\ log' = <<Act(selected)>> \o a.log
           /\ IF a.raised # None
                THEN /\ Raise(a.raised)
                     /\ UNCHANGED <<flat, selected, top, cursor, child, status>>
                ELSE Refresh(a.children, a.collapsed, child, status)
  /\ tog' = NoTog
  /\ UNCHANGED <<pureVars, dirty, toggled, maxy, orphans, written, doc>>

\* r.text.split('\n')[0]
RECURSIVE FirstLine(_)
FirstLine(text) ==
  IF text = <<>> \/ Head(text) = "\n" THEN <<>>
  ELSE <<Head(text)>> \o FirstLine(Tail(text))

\* Bodies requests.get(url).text can have: empty, one line without a
\* newline, an empty first line, a line followed by more lines.
Texts == {<<>>, <<"a">>, <<"\n", "a">>, <<"a", "\n", "a">>}

\* Mutant of AudioActivate: the whole body is passed on, not its first line.
AudioActivate_WholeText(n, outcome, text) ==
  IF outcome = "ok"
    THEN [log |-> <<Step("fetching"),
                    [t |-> "fetch", n |-> None, v |-> <<text>>],
                    [t |-> "launch", n |-> None, v |-> <<text>>]>>,
          raised |-> None]
    ELSE [log |-> <<Step("fetching"), Step("fetch"), Step("raise")>>,
          raised |-> outcome]

\* OPMLAudio.activate.  text: the body requests.get answers with.
AudioActivate(n, outcome, text) ==
  IF outcome = "ok"
    THEN [log |-> <<Step("fetching"),
                    [t |-> "fetch", n |-> None, v |-> <<text>>],
                    [t |-> "launch", n |-> None, v |-> <<FirstLine(text)>>]>>,
          raised |-> None]
    ELSE [log |-> <<Step("fetching"), Step("fetch"), Step("raise")>>,
          raised |-> outcome]

\* Mutant of Launch: the previous handle is dropped without terminate/wait.
Launch_NoTerminate(c, o, popenOk) ==
  [child |-> IF popenOk THEN "running" ELSE c,
   orphans |-> o + (IF c = "running" THEN 1 ELSE 0),
   log |-> IF popenOk THEN <<Step("popen")>>
                      ELSE <<Step("popen"), Step("raise")>>,
   raised |-> IF popenOk THEN None ELSE "OSError"]

\* Lines 477-485: the caller's handling of a command list.  c: self.child;
\* o: the processes running without a handle.
Launch(c, o, popenOk) ==
  [child |-> IF popenOk THEN "running" ELSE Terminated(c),
   orphans |-> o + (IF Terminated(c) = "running" THEN 1 ELSE 0),
   log |-> (IF c # "none" THEN <<Step("terminate"), Step("wait")>> ELSE <<>>)
           \o (IF popenOk THEN <<Step("popen")>>
                          ELSE <<Step("popen"), Step("raise")>>),
   raised |-> IF popenOk THEN None ELSE "OSError"]

\* Mutant of EnterAudio: the running player is stopped before the playlist
\* is fetched.
EnterAudio_StopsPlayerFirst(n, outcome, text, popenOk) ==
  LET a == AudioActivate(n, outcome, text)
  IN  IF a.raised # None
        THEN [child |-> Terminated(child), status |-> None, orphans |-> orphans,
              log |-> a.log, raised |-> a.raised]
        ELSE LET l == Launch(Terminated(child), orphans, popenOk)
             IN  [child |-> l.child,
                  status |-> IF l.raised = None THEN n ELSE status,
                  orphans |-> l.orphans,
                  log |-> a.log \o l.log,
                  raised |-> l.raised]

\* Lines 473-487 for an audio node: run the generator, handle what it yields.
EnterAudio(n, outcome, text, popenOk) ==
  LET a == AudioActivate(n, outcome, text)
  IN  IF a.raised # None
        THEN [child |-> child, status |-> status, orphans |-> orphans,
              log |-> a.log, raised |-> a.raised]
        ELSE LET l == Launch(child, orphans, popenOk)
             IN  [child |-> l.child,
                  status |-> IF l.raised = None THEN n ELSE status,
                  orphans |-> l.orphans,
                  log |-> a.log \o l.log,
                  raised |-> l.raised]

KeyEnterAudio ==
  /\ pc = "loop"
  /\ Kind(selected) = "audio"
  /\ \E outcome \in {"ok", "FetchError"}, text \in Texts, popenOk \in BOOLEAN :
       LET e == EnterAudio(selected, outcome, text, popenOk)
       IN  /\ log' = <<Act(selected)>> \o e.log
           /\ orphans' = e.orphans
           /\ IF e.raised # None
                THEN /\ Raise(e.raised)
                     /\ child' = e.child
                     /\ status' = e.status
                     /\ UNCHANGED <<flat, selected, top, cursor>>
                ELSE Refresh(children, collapsed, e.child, e.status)
  /\ tog' = NoTog
  /\ UNCHANGED <<pureVars, nodeVars, maxy, written, doc>>

\* Mutant of Toggle: the node is appended whether present or not.
Toggle_AlwaysAppends(ch, x) == Append(ch, x)

\* OPMLFavourites.toggle on the children list.
Toggle(ch, x) == IF x \in Range(ch) THEN Remove(ch, x) ELSE Append(ch, x)

KeyFavourite ==
  /\ pc = "loop"
  /\ selected \in Range(children["F"]) \/ Len(children["F"]) < MaxFav
  /\ LET ch == [children EXCEPT !["F"] = Toggle(@, selected)]
     IN  /\ children' = ch
         /\ Refresh(ch, collapsed, child, status)
  /\ dirty' = TRUE
  /\ toggled' = TRUE
  /\ tog' = IF tog.node = selected /\ tog.count = 1
              THEN [tog EXCEPT !.count = 2]
              ELSE [node |-> selected, count |-> 1,
                    before |-> Range(children["F"])]
  /\ log' = <<>>
  /\ UNCHANGED <<pureVars, collapsed, ready, fetches, maxy, orphans, written, doc>>

\* OPMLOutline.to_element recursion below the favourites' children ends.
RECURSIVE ElementOk(_, _, _)
ElementOk(n, depth, ch) ==
  /\ depth <= MaxDepth
  /\ n \in Branches => \A i \in 1..Len(ch[n]) : ElementOk(ch[n][i], depth + 1, ch)

\* Mutant of SaveFavourites: the file is written whether dirty or not.
SaveFavourites_Unconditional ==
  IF \A i \in 1..Len(children["F"]) : ElementOk(children["F"][i], 1, children)
    THEN [written |-> TRUE, raised |-> None,
          doc |-> FavouritesToXml(NodeTree("F", 0, children))]
    ELSE [written |-> written, raised |-> "RecursionError", doc |-> doc]

\* save_favourites: written only when dirty.
SaveFavourites ==
  IF dirty
    THEN IF \A i \in 1..Len(children["F"]) : ElementOk(children["F"][i], 1, children)
           THEN [written |-> TRUE, raised |-> None,
                 doc |-> FavouritesToXml(NodeTree("F", 0, children))]
           ELSE [written |-> written, raised |-> "RecursionError", doc |-> doc]
    ELSE [written |-> written, raised |-> None, doc |-> doc]

KeyExit ==
  /\ pc = "loop"
  /\ child' = Terminated(child)
  /\ LET s == SaveFavourites
     IN  /\ written' = s.written
         /\ doc' = s.doc
         /\ IF s.raised # None
              THEN Raise(s.raised)
              ELSE pc' = "done" /\ err' = err
  /\ log' = <<>>
  /\ tog' = NoTog
  /\ UNCHANGED <<pureVars, nodeVars, selected, cursor, top, flat, maxy, status, orphans>>

KeyStop ==
  LET p == Polled(Terminated(child), status)
  IN  /\ pc = "loop"
      /\ child' = p.child
      /\ status' = p.status
      /\ log' = <<>>
      /\ tog' = NoTog
      /\ UNCHANGED <<pureVars, nodeVars, selected, cursor, top, flat, maxy, pc, err,
                     orphans, written, doc>>

\* The player process ends on its own.
PlayerExits ==
  /\ pc = "loop"
  /\ child = "running"
  /\ child' = "exited"
  /\ UNCHANGED <<pureVars, nodeVars, selected, cursor, top, flat, maxy, status, pc, err,
                 log, orphans, written, doc, tog>>

Next ==
  \/ KeyUp
  \/ KeyDown
  \/ KeyStart
  \/ KeyEnd
  \/ KeyPageUp
  \/ KeyPageDown
  \/ KeyResize
  \/ KeyEnterOutline
  \/ KeyEnterLink
  \/ KeyEnterAudio
  \/ KeyFavourite
  \/ KeyExit
  \/ KeyStop
  \/ PlayerExits

Spec == Init /\ [][Next]_vars

\* ---------------------------------------------------------------- MoveSpec
\* OPMLBrowser.move as a function of its arguments and of the fields it
\* reads, applied to every list, top, cursor and height within the bounds.

\* move(rel, to): `to' decides the target when given, else rel.
Move(rel, to, fl, tp, cu, my) ==
  LET t0 == IF to = "start" THEN 0
            ELSE IF to = "end" THEN Len(fl) - 1
            ELSE tp + cu + rel
  IN  MoveTarget(t0, fl, tp, my)

\* The rel arguments interact passes: up, down, page up, page down, and 0
\* after an activation or a toggle.
Rels(my) == {0 - 1, 1, 0 - my, my, 0}

\* The first k entries of the list flatten gives once Favourites (holding
\* G) and L (holding T) are expanded.
Listing(k) ==
  LET all == << <<"R", 0>>, <<"F", 1>>, <<"G", 2>>, <<"L", 1>>, <<"T", 2>> >>
  IN  [i \in 1..k |-> all[((i - 1) % Len(all)) + 1]]

InitMove ==
  /\ children = [n \in Branches |->
                   CASE n = "R" -> <<"F", "L">>
                     [] n = "F" -> <<"G">>
                     [] OTHER   -> <<"T">>]
  /\ collapsed = [n \in Branches |-> FALSE]
  /\ ready = [n \in Links |-> TRUE]
  /\ dirty = FALSE
  /\ flat \in {Listing(k) : k \in 1..MaxLen}
  /\ top \in 0..MaxTop
  /\ cursor \in (0 - 1)..MaxCursor
  /\ maxy \in Heights
  /\ selected = "R"
  /\ child = "none"
  /\ status = None
  /\ pc = "loop"
  /\ err = None
  /\ log = <<>>
  /\ fetches = [n \in Links |-> 1]
  /\ orphans = 0
  /\ written = FALSE
  /\ toggled = FALSE
  /\ tog = NoTog
  /\ doc = NoDoc
  /\ moved = NoMove
  /\ trip = NoTrip

\* One call of move; moved keeps what it was called with.
MoveCall(rel, to) ==
  LET m == Move(rel, to, flat, top, cursor, maxy)
  IN  /\ selected' = m.selected
      /\ top' = m.top
      /\ cursor' = m.cursor
      /\ moved' = [rel |-> rel, to |-> to, top |-> top, cursor |-> cursor,
                   maxy |-> maxy]
      /\ UNCHANGED <<nodeVars, flat, maxy, child, status, pc, err, log,
                     orphans, written, tog, doc, trip>>

MoveRel == \E rel \in Rels(maxy) : MoveCall(rel, None)
MoveStart == MoveCall(None, "start")
MoveEnd == MoveCall(None, "end")

NextMove ==
  \/ MoveRel
  \/ MoveStart
  \/ MoveEnd

MoveSpec == InitMove /\ [][NextMove]_vars

\* ---------------------------------------------------------------- TripSpec
\* from_xml, then to_xml of the tree it built, then from_xml of the result,
\* applied to every document within the bounds.

Element(type, text, url, kids) ==
  [type |-> type, text |-> text, url |-> url, kids |-> kids]

\* Outlines without children: two audio outlines, a link, an audio outline
\* without URL, an outline of type "outline", one without any type, and one
\* of a type from_element does not know.
Playable == {Element("audio", "a", TRUE, <<>>),
             Element("audio", "b", TRUE, <<>>),
             Element("link", "c", TRUE, <<>>)}
Childless == Playable \cup {Element("audio", "d", FALSE, <<>>),
                            Element("outline", "e", FALSE, <<>>),
                            Element(None, "f", FALSE, <<>>),
                            Element("text", "g", FALSE, <<>>)}

SeqsOf(S, lo, hi) == UNION {[1..k -> S] : k \in lo..hi}

\* Outlines with children: with no type, of type "outline", of type "link".
Folders ==
  {Element(type, "h", type = "link", kids) :
     type \in {None, "outline", "link"}, kids \in SeqsOf(Playable, 1, MaxKids)}

\* The documents: up to two outlines under /opml/body.
Documents == SeqsOf(Childless \cup Folders, 0, 2)

NewTrip(document) ==
  [stage |-> "document", doc |-> document, tree |-> None, out |-> None,
   back |-> None]

InitTrip ==
  /\ children = [n \in Branches |-> IF n = "R" THEN <<"F", "L">> ELSE <<>>]
  /\ collapsed = [n \in Branches |-> n # "R"]
  /\ ready = [n \in Links |-> FALSE]
  /\ dirty = FALSE
  /\ flat = Flatten(children, collapsed).list
  /\ top = 0
  /\ cursor = 0
  /\ maxy = 7
  /\ selected = "R"
  /\ child = "none"
  /\ status = None
  /\ pc = "loop"
  /\ err = None
  /\ log = <<>>
  /\ fetches = [n \in Links |-> 0]
  /\ orphans = 0
  /\ written = FALSE
  /\ toggled = FALSE
  /\ tog = NoTog
  /\ doc = NoDoc
  /\ moved = NoMove
  /\ trip \in {NewTrip(document) : document \in Documents}

tripOnly == <<nodeVars, selected, cursor, top, flat, maxy, child, status, pc,
              err, log, orphans, written, tog, doc, moved>>

\* OPMLOutline.from_xml(document)
TripParse ==
  /\ trip.stage = "document"
  /\ LET t == FromXml("outline", trip.doc)
     IN  trip' = [trip EXCEPT !.stage = IF t.ok THEN "parsed" ELSE "rejected",
                              !.tree = t]
  /\ UNCHANGED tripOnly

\* tree.to_xml()
TripSerialize ==
  /\ trip.stage = "parsed"
  /\ trip' = [trip EXCEPT !.stage = "serialized", !.out = ToXml(trip.tree.node)]
  /\ UNCHANGED tripOnly

\* OPMLOutline.from_xml of what to_xml gave
TripReparse ==
  /\ trip.stage = "serialized"
  /\ trip' = [trip EXCEPT !.stage = "reparsed",
                          !.back = FromXml("outline", trip.out)]
  /\ UNCHANGED tripOnly

NextTrip ==
  \/ TripParse
  \/ TripSerialize
  \/ TripReparse

TripSpec == InitTrip /\ [][NextTrip]_vars

\* ------------------------------------------------- graph of children links

\* The branch nodes that hold n in their children list.
Parents(n) == {p \in Branches : n \in Range(children[p])}

RECURSIVE UpClosure(_)
UpClosure(S) ==
  LET S2 == S \cup UNION {Parents(x) : x \in S}
  IN  IF S2 = S THEN S ELSE UpClosure(S2)

\* Every node from which n is reached by one or more children links.
Ancestors(n) == UpClosure(Parents(n))

\* The nodes reached from the root by children links that leave only
\* nodes with collapsed = FALSE.
RECURSIVE DownClosure(_)
DownClosure(S) ==
  LET S2 == S \cup UNION {Range(children[p]) : p \in {q \in S \cap Branches : ~collapsed[q]}}
  IN  IF S2 = S THEN S ELSE DownClosure(S2)

Shown == DownClosure({"R"})

Acyclic == \A n \in Nodes : n \notin Ancestors(n)

NodesOf(fl) == {fl[i][1] : i \in 1..Len(fl)}

\* fl lists the children of n, in order and one level deeper, below an
\* entry of n.
ListedUnder(n, fl) ==
  \E i \in 1..Len(fl) :
    /\ fl[i][1] = n
    /\ \A k \in 1..Len(children[n]) :
         \E j \in (i + 1)..Len(fl) :
           /\ fl[j] = <<children[n][k], fl[i][2] + 1>>
           /\ \A m \in (i + 1)..(j - 1) : fl[m][2] > fl[i][2]

\* ------------------------------------------------------------------ claims

\* C1 as stated, read on the states without a cycle where flatten returns:
\* for every branch node n with children, the children of n appear in
\* flatten(root) iff n and every ancestor of n have collapsed = FALSE.
C1_AsStated ==
  LET f == Flatten(children, collapsed)
  IN  (f.ok /\ Acyclic) =>
        \A n \in Branches :
          children[n] # <<>> =>
            ((Range(children[n]) \subseteq NodesOf(f.list))
               <=> (\A a \in Ancestors(n) \cup {n} : ~collapsed[a]))

\* C1 (amended): whenever flatten(root) returns, for every branch node n with
\* children, flatten(root) lists the children of n below an entry of n iff
\* n is reached from the root by some chain of children links on which every
\* node, n included, has collapsed = FALSE; and the nodes of flatten(root)
\* are exactly the nodes reached by such chains.
C1_FlattenVisibility ==
  LET f == Flatten(children, collapsed)
  IN  f.ok =>
        /\ NodesOf(f.list) = Shown
        /\ \A n \in Branches :
             children[n] # <<>> =>
               (ListedUnder(n, f.list) <=> (n \in Shown /\ ~collapsed[n]))

\* C1 witness: a node with two parents (one of them Favourites) is listed
\* with its children although one of its ancestors is collapsed.
C1_Witness ==
  LET f == Flatten(children, collapsed)
  IN  /\ f.ok
      /\ Acyclic
      /\ \E n \in Branches :
           /\ children[n] # <<>>
           /\ ListedUnder(n, f.list)
           /\ \E a \in Ancestors(n) : collapsed[a]

\* The steps of l that are yielded to the caller: notices and command lists.
Events(l) ==
  SelectSeq(l, LAMBDA e : e.t \in {"loading", "done", "fetching", "launch"})

Tags(l) == {l[i].t : i \in 1..Len(l)}

\* The last handler activated node n.
Activated(l, n) == l # <<>> /\ l[1] = Act(n)

\* The fetch of the last handler raised.
FetchFailed(l) ==
  \E i \in 1..(Len(l) - 1) : l[i].t = "fetch" /\ l[i + 1].t = "raise"

\* A fetch made for link n has succeeded.
Loaded(n) == fetches[n] >= 1 /\ ~(Activated(log, n) /\ FetchFailed(log))

\* C2: once a fetch for a link has succeeded, ready stays TRUE, exactly one
\* fetch has been made for it, and every later activation of it makes no
\* fetch, leaves its children alone, yields no event and only flips
\* collapsed.
C2_LazyLoadOnce ==
  /\ [](\A n \in Links : Loaded(n) => ready[n] /\ fetches[n] = 1)
  /\ [][\A n \in Links :
          /\ ready[n] => ready'[n] /\ children'[n] = children[n]
                                   /\ fetches'[n] = fetches[n]
          /\ (ready[n] /\ KeyEnterLink /\ selected = n) =>
               /\ Events(log') = <<>>
               /\ "fetch" \notin Tags(log')
               /\ collapsed' = [collapsed EXCEPT ![n] = ~@]
               /\ ready' = ready]_vars

\* C2 witness: a loaded link has just been activated a further time.
C2_Witness ==
  \E n \in Links :
    /\ ready[n]
    /\ fetches[n] = 1
    /\ log = <<Act(n), Step("flip")>>
    /\ children[n] # <<>>

\* C3: when the fetch or parse of a link's activation fails, the error leaves
\* interact, the node keeps ready = FALSE and every node keeps its children
\* and its collapsed flag, so that activate on the same node fetches again.
C3_FailedLoad ==
  /\ [](\A n \in Links :
          (Activated(log, n) /\ FetchFailed(log)) =>
            /\ pc = "crashed"
            /\ err \in {"FetchError", "ParseError"}
            /\ ~ready[n]
            /\ \A res \in FetchResults(n) :
                 "fetch" \in Tags(LinkActivate(n, "ok", res).log))
  /\ [][\A n \in Links :
          (Activated(log', n) /\ FetchFailed(log')) =>
            /\ ready' = ready
            /\ children' = children
            /\ collapsed' = collapsed]_vars

\* C3 witness: the load of a link has failed.
C3_Witness ==
  \E n \in Links :
    /\ Activated(log, n)
    /\ FetchFailed(log)
    /\ err = "ParseError"
    /\ fetches[n] = 1

\* C4: toggling the same node twice in a row restores the membership set of
\* the favourites' children and leaves dirty = TRUE; dirty, once set, is
\* never reset.
C4_ToggleTwice ==
  /\ [](tog.count = 2 => (Range(children["F"]) = tog.before /\ dirty))
  /\ [](\A x \in Nodes :
          Range(Toggle(Toggle(children["F"], x), x)) = Range(children["F"]))
  /\ [][dirty => dirty']_vars

\* C4 witness: a node that was no favourite has been toggled twice in a row.
C4_Witness ==
  /\ tog.count = 2
  /\ tog.node \notin tog.before
  /\ tog.before # {}

\* C5: the favourites file is written only when dirty = TRUE, and never in a
\* session in which toggle was not invoked.
C5_WriteOnlyWhenDirty == written => (dirty /\ toggled)

\* C5 witness: a session with favourites loaded from a file, a lazy load and
\* a resize has ended without a toggle and without a write.
C5_Witness ==
  /\ pc = "done"
  /\ ~toggled
  /\ ~written
  /\ children["F"] # <<>>
  /\ ready["L"]
  /\ cursor > maxy - 3 - status_ymargin

\* Number of player processes that are running.
Live == orphans + (IF child = "running" THEN 1 ELSE 0)

\* Steps a, b, c occur in l in this order.
InOrder(l, a, b, c) ==
  \E i, j, k \in 1..Len(l) :
    i < j /\ j < k /\ l[i].t = a /\ l[j].t = b /\ l[k].t = c

\* C6: at most one player process runs at any time, and a command list
\* handled while a handle is held terminates and awaits that handle before
\* the new process is started.
C6_OnePlayer ==
  /\ [](Live <= 1)
  /\ [][(KeyEnterAudio /\ child # "none" /\ "popen" \in Tags(log')) =>
          InOrder(log', "terminate", "wait", "popen")]_vars

\* C6 witness: a station was started while another one was playing.
C6_Witness ==
  /\ InOrder(log, "terminate", "wait", "popen")
  /\ "raise" \notin Tags(log)
  /\ child = "running"
  /\ status # None

Launches(l) == SelectSeq(l, LAMBDA e : e.t = "launch")
Fetched(l) == SelectSeq(l, LAMBDA e : e.t = "fetch")

\* line is text up to its first newline.
IsFirstLine(line, text) ==
  /\ Len(line) <= Len(text)
  /\ \A i \in 1..Len(line) : line[i] = text[i] /\ line[i] # "\n"
  /\ Len(line) = Len(text) \/ text[Len(line) + 1] = "\n"

\* C7: an activation yields at most one command list: none for an outline,
\* the favourites or a link, and for an audio node whose fetch succeeds
\* exactly one, holding exactly the first line of the fetched text.
C7_OneLaunch ==
  /\ Len(Launches(log)) <= 1
  /\ \A n \in Nodes :
       Activated(log, n) =>
         IF Kind(n) = "audio" /\ ~FetchFailed(log)
           THEN /\ Len(Launches(log)) = 1
                /\ Len(Launches(log)[1].v) = 1
                /\ IsFirstLine(Launches(log)[1].v[1], Fetched(log)[1].v[1])
           ELSE Launches(log) = <<>>

\* C7 witness: an audio node answered with a line, a newline and more text.
C7_Witness ==
  /\ \E n \in Nodes : Kind(n) = "audio" /\ Activated(log, n)
  /\ Len(Launches(log)) = 1
  /\ Launches(log)[1].v = << <<"a">> >>
  /\ Fetched(log)[1].v = << <<"a", "\n", "a">> >>

\* C8: a failed playlist fetch yields no command list and leaves the player
\* alone: the handle, the running processes and the status are unchanged.
C8_FailedPlaylistFetch ==
  [][\A n \in Nodes :
       (Kind(n) = "audio" /\ Activated(log', n) /\ FetchFailed(log')
          /\ pc = "loop" /\ pc' = "crashed") =>
         /\ child' = child
         /\ status' = status
         /\ orphans' = orphans
         /\ Tags(log') \cap {"launch", "terminate", "wait", "popen"} = {}]_vars

\* C8 witness: a playlist fetch has failed while a station was playing.
C8_Witness ==
  /\ \E n \in Nodes : Kind(n) = "audio" /\ Activated(log, n)
  /\ FetchFailed(log)
  /\ pc = "crashed"
  /\ child = "running"
  /\ status # None

\* C9 as stated: flatten(root) returns in every reachable tree state.
C9_FlattenReturns == Flatten(children, collapsed).ok

\* C10 as stated: no node is reached from itself by children links.
C10_NoCycle == Acyclic

\* The row move lets the cursor reach: maxy - 3 - status_ymargin.
MaxVisibleRow(my) == my - 6

\* C11: for every flat list of length >= 1, every top, cursor and window
\* height, after move(to="end") top + cursor = len(flat) - 1.
C11_EndReachesLast == moved.to = "end" => top + cursor = Len(flat) - 1

\* move(to="end") was called with the last entry below the window, and has
\* scrolled down to it.
C11_Witness ==
  /\ moved.to = "end"
  /\ moved.top + MaxVisibleRow(moved.maxy) < Len(flat) - 1
  /\ moved.top + moved.cursor # Len(flat) - 1
  /\ top > moved.top
  /\ cursor > 0

CursorVisible(cu, my) == 0 <= cu /\ cu <= MaxVisibleRow(my)

\* C12: a window resize re-clamps the viewport, so the selected entry stays
\* within the visible window: when the cursor is visible before a resize
\* and the new window shows at least one row of the list, then
\* 0 <= cursor <= maxVisibleRow holds for the new height after the resize.
C12_ResizeKeepsCursorVisible ==
  [][(KeyResize /\ CursorVisible(cursor, maxy) /\ MaxVisibleRow(maxy') >= 0)
       => CursorVisible(cursor', maxy')]_vars

\* The outlines save_favourites writes for the current favourites children.
FavouritesDoc == FavouritesToXml(NodeTree("F", 0, children))

\* C13: whenever the session has ended with dirty = TRUE, favourites.opml
\* has been written with the current favourites children (read on the
\* states without a cycle, where to_xml returns).
C13_DirtyEndIsFlushed ==
  (pc # "loop" /\ dirty /\ Acyclic) => (written /\ doc = FavouritesDoc)

\* Every entry of a flattened list one level deeper.
Deeper(l) == [i \in 1..Len(l) |-> <<l[i][1], l[i][2] + 1>>]

\* C14 as stated, read on the trees with at least one top-level entry: for
\* every tree built by parse, parse(serialize(tree)) succeeds and its fully
\* expanded flattened (title, depth) sequence is identical to that of the
\* original tree.
C14_AsStated ==
  (trip.stage = "reparsed" /\ trip.tree.node.children # <<>>) =>
    /\ trip.back.ok
    /\ Expanded(trip.back.node, 0) = Expanded(trip.tree.node, 0)

\* C14 (amended): for every tree built by parse with at least one top-level
\* entry, parse(serialize(tree)) succeeds and its fully expanded flattened
\* (title, depth) sequence is the root entry, then one untitled entry at
\* depth 1, then the entries of the original tree below its root in the
\* same order with the same titles, each one level deeper; for a tree with
\* no top-level entry parse(serialize(tree)) fails.
C14_RoundTripWraps ==
  trip.stage = "reparsed" =>
    IF trip.tree.node.children = <<>>
      THEN ~trip.back.ok
      ELSE /\ trip.back.ok
           /\ Expanded(trip.back.node, 0) =
                << <<"", 0>>, <<None, 1>> >>
                  \o Deeper(Tail(Expanded(trip.tree.node, 0)))

\* A document with a folder of two outlines and a further outline went
\* through parse, serialize and parse.
C14_Witness ==
  /\ trip.stage = "reparsed"
  /\ trip.back.ok
  /\ Len(trip.doc) = 2
  /\ Len(trip.doc[1].kids) = 2
  /\ Len(Expanded(trip.tree.node, 0)) = 5

\* The index the last call of move asked for, clamped into the list.
AskedTarget ==
  LET asked == IF moved.to = "start" THEN 0
               ELSE IF moved.to = "end" THEN Len(flat) - 1
               ELSE moved.top + moved.cursor + moved.rel
  IN  IF asked > Len(flat) - 1 THEN Len(flat) - 1
      ELSE IF asked < 0 THEN 0 ELSE asked

\* C15: with target clamped into [0, len(flat) - 1] and maxVisibleRow =
\* maxy - 6, move yields (top, cursor) = (target, 0) if target < old top;
\* (target - maxVisibleRow, maxVisibleRow) if target > old top +
\* maxVisibleRow; (old top, target - old top) otherwise; in every case
\* top + cursor = target and selected is the node of flat[target].
C15_ScrollingPolicy ==
  moved # NoMove =>
    LET target == AskedTarget
        row == MaxVisibleRow(moved.maxy)
    IN  /\ <<top, cursor>> =
             IF target < moved.top THEN <<target, 0>>
             ELSE IF target > moved.top + row THEN <<target - row, row>>
             ELSE <<moved.top, target - moved.top>>
        /\ top + cursor = target
        /\ selected = flat[target + 1][1]

\* A page up from below the first page: the target lies above the window
\* and move has scrolled up to it.
C15_Witness ==
  /\ moved # NoMove
  /\ moved.to = None
  /\ moved.rel < 0
  /\ moved.cursor >= 0
  /\ AskedTarget < moved.top
  /\ top = AskedTarget
  /\ top < moved.top
  /\ cursor = 0

\* Every step b of l has a step a somewhere before it.
Precedes(l, a, b) ==
  \A j \in 1..Len(l) : l[j].t = b => \E i \in 1..(j - 1) : l[i].t = a

\* C16: in the activation of a link that is not ready, "Loading" is yielded
\* before the fetch starts, children and ready are assigned before
\* "Loading... done" is yielded, and collapsed is flipped only after it; in
\* the activation of an audio node "Fetching playlist" is yielded before
\* the fetch and before the command list.
C16_EventOrder ==
  /\ \A n \in Links :
       (Activated(log, n) /\ "loading" \in Tags(log)) =>
         /\ Precedes(log, "loading", "fetch")
         /\ Precedes(log, "fetch", "set_children")
         /\ Precedes(log, "set_children", "done")
         /\ Precedes(log, "set_ready", "done")
         /\ Precedes(log, "done", "flip")
         /\ "done" \in Tags(log) => (ready[n] /\ "flip" \in Tags(log))
  /\ \A n \in Nodes :
       (Kind(n) = "audio" /\ Activated(log, n)) =>
         /\ log[2].t = "fetching"
         /\ Precedes(log, "fetching", "fetch")
         /\ Precedes(log, "fetching", "launch")
         /\ Precedes(log, "fetch", "launch")

\* A link was loaded with an audio outline and expanded by the last key:
\* every step of the activation of a link that was not ready has run.
C16_Witness ==
  \E n \in Links :
    /\ Activated(log, n)
    /\ Tags(log) = {"activate", "loading", "fetch", "set_children",
                    "set_ready", "done", "flip"}
    /\ children[n] # <<>>
    /\ ~collapsed[n]

\* C17: at the end of every iteration of the loop of interact top >= 0,
\* cursor >= 0, top + cursor is an index into flat, and selected is the
\* node of flat[top + cursor].
C17_CursorConsistent ==
  pc = "loop" =>
    /\ top >= 0
    /\ cursor >= 0
    /\ top + cursor \in 0..(Len(flat) - 1)
    /\ selected = flat[top + cursor + 1][1]

\* C18: at the end of every iteration of the loop of interact, flat equals
\* flatten(root) of the current children and collapsed flags, it is not
\* empty, and its first entry is (root, 0).
C18_FlatIsFresh ==
  pc # "crashed" =>
    LET f == Flatten(children, collapsed)
    IN  /\ f.ok
        /\ flat = f.list
        /\ Len(flat) >= 1
        /\ flat[1] = <<"R", 0>>

\* Favourites is expanded, a link shown below it was loaded and toggled into
\* it, and flat lists the link twice, each time with its child.
C18_Witness ==
  /\ pc = "loop"
  /\ toggled
  /\ ~collapsed["F"]
  /\ \E n \in Links :
       /\ n \in Range(children["F"])
       /\ ~collapsed[n]
       /\ children[n] # <<>>
       /\ Len(SelectSeq(flat, LAMBDA e : e[1] = n)) = 2
       /\ Len(flat) >= 6

\* The text of every node of a sequence of parsed nodes, in order.
Titles(nodes) == [i \in 1..Len(nodes) |-> nodes[i].text]

\* C19: every favourites.opml written by save_favourites is loaded without
\* error by load_favourites at the next start, and the favourites it gives
\* have the titles of the favourites written, in the same order.
C19_WrittenFavouritesLoad ==
  written =>
    LET loaded == FromXml("favourites", doc)
    IN  /\ loaded.ok
        /\ Titles(loaded.node.children)
             = [i \in 1..Len(children["F"]) |-> NodeText(children["F"][i])]

\* C20: a favourite key pressed right after a favourite key toggles the node
\* the first press toggled, and so restores the membership of the
\* favourites as it was before the first press (read on the presses made
\* while the cursor is on a row the window shows).
C20_SecondPressSameNode ==
  [][(KeyFavourite /\ tog.count = 1 /\ CursorVisible(cursor, maxy)) =>
       /\ selected = tog.node
       /\ Range(children'["F"]) = tog.before]_vars

\* The state of the nodes other than n is as it was.
OthersKept(n) ==
  /\ \A m \in Branches \ {n} :
       collapsed'[m] = collapsed[m] /\ children'[m] = children[m]
  /\ \A m \in Links \ {n} : ready'[m] = ready[m]

\* C21: the enter key on a node n changes only the state of n: its
\* collapsed flag, and its children and ready when n is a link that is not
\* ready; collapsed, ready and children of every other node, the children
\* of Favourites and dirty are unchanged; the enter key on an audio node
\* changes no node state; the move keys and a resize change no node state.
C21_ActivationFrame ==
  [][/\ (KeyEnterOutline \/ KeyEnterLink) =>
          /\ OthersKept(selected)
          /\ dirty' = dirty
          /\ (selected \notin Links \/ ready[selected]) =>
               (children' = children /\ ready' = ready)
          /\ children'["F"] = children["F"]
     /\ KeyEnterAudio => UNCHANGED <<children, collapsed, ready, dirty>>
     /\ (KeyUp \/ KeyDown \/ KeyStart \/ KeyEnd \/ KeyPageUp \/ KeyPageDown
           \/ KeyResize) => UNCHANGED <<children, collapsed, ready, dirty>>
    ]_vars

\* The last key activated a link that was not ready, while Favourites was
\* expanded, dirty and held that link and another node: the link got its
\* child and was expanded, and nothing else changed.
C21_Witness ==
  \E n \in Links :
    /\ Activated(log, n)
    /\ "set_children" \in Tags(log)
    /\ children[n] # <<>>
    /\ ~collapsed[n]
    /\ ~collapsed["F"]
    /\ dirty
    /\ n \in Range(children["F"])
    /\ Len(children["F"]) = 2
====
